---- MODULE Spec2Model ----
(***************************************************************************)
(* Model of src/deployer/Deployer.js: the Deployer class (constructor and  *)
(* the deploy pipeline) together with the two external collaborators it    *)
(* talks to, the ethers Wallet (signing identity) and the ethers provider  *)
(* (chain client).  deploy is an async function: every action below is one *)
(* run-to-completion segment of it, from one await to the next.            *)
(***************************************************************************)
EXTENDS Integers, Sequences, FiniteSets, TLC

\* ---------------------------------------------------------------- bounds
MaxDeployers == 2   \* Deployer instances that get constructed
MaxCalls == 1       \* deploy invocations (they may overlap at the awaits)

\* ------------------------------------------------------------- JS values
\* A JS value that is either undefined or a number: <<>> or <<n>>.
Undefined == << >>
Num(n) == <<n>>

\* JS `v > 0`: false for undefined (NaN comparison), numeric otherwise.
GreaterThanZero(v) == v # Undefined /\ v[1] > 0

NoError == "none"
NoProvider == "none"

\* ------------------------------------------------------------ the inputs
Providers == {"p1", "p2"}
Wallets == {"w1"}        \* objects for which `instanceof Wallet` holds
NonWallets == {"x1"}     \* any other object passed as the wallet argument
Identities == Wallets \cup NonWallets

UndefinedOverrides == [kind |-> "undefined", gasPrice |-> Undefined, gasLimit |-> Undefined]
NullOverrides == [kind |-> "null", gasPrice |-> Undefined, gasLimit |-> Undefined]
OverridesObject(gp, gl) == [kind |-> "object", gasPrice |-> gp, gasLimit |-> gl]

\* The defaultOverrides the constructions of Spec draw from.
OverrideInputs == {UndefinedOverrides, OverridesObject(Num(5), Num(0))}

\* The defaultOverrides SpecOverrides starts from: absent, null, and every
\* object over these gasPrice / gasLimit values.
GasPriceInputs == {Undefined, Num(-1), Num(0), Num(5)}
GasLimitInputs == {Undefined, Num(-1), Num(0), Num(7)}
AllOverrideInputs ==
    {UndefinedOverrides, NullOverrides}
        \cup {OverridesObject(gp, gl) : gp \in GasPriceInputs, gl \in GasLimitInputs}

NoContract == [contractName |-> "", bytecode |-> "", ctorInputs |-> 0]
Token == [contractName |-> "Token", bytecode |-> "0x600a", ctorInputs |-> 1]
ContractInputs == {Token}
ArgInputs == {<< >>, <<1000>>}

\* ----------------------------------------------------------------- state
VARIABLES
    objProvider,    \* the `provider` property of every object passed as wallet
    deployers,      \* the Deployer instances constructed so far
    lastConstruct,  \* how the latest `new Deployer(...)` ended
    calls,          \* the deploy invocations
    clientLog       \* what the wallet / providers did, as they completed it

vars == <<objProvider, deployers, lastConstruct, calls, clientLog>>

NoDeployer == [wallet |-> "none", provider |-> NoProvider, defaultOverrides |-> UndefinedOverrides]
NoTx == [data |-> << >>, gasPrice |-> Undefined, gasLimit |-> Undefined]
NoReceipt == [status |-> Undefined, contractAddress |-> 0, transactionHash |-> 0]
NoErr == [name |-> NoError, transactionHash |-> 0]

\* ----------------------------------------------------------- constructor
\* Faulty variant of the constructor: the fields are assigned before the instanceof check.
ConstructorAssignsFirst(wallet, provider, defaultOverrides, op) ==
    IF wallet \notin Wallets
    THEN [threw |-> "InvalidIdentity", this |-> NoDeployer,
          objProvider |-> [op EXCEPT ![wallet] = provider]]
    ELSE [threw |-> NoError,
          this |-> [wallet |-> wallet, provider |-> provider, defaultOverrides |-> defaultOverrides],
          objProvider |-> [op EXCEPT ![wallet] = provider]]

\* new Deployer(wallet, provider, defaultOverrides), given the objects' provider
\* properties op: the error thrown, the instance, and the provider properties after.
Constructor(wallet, provider, defaultOverrides, op) ==
    IF wallet \notin Wallets
    THEN [threw |-> "InvalidIdentity", this |-> NoDeployer, objProvider |-> op]
    ELSE [threw |-> NoError,
          this |-> [wallet |-> wallet, provider |-> provider, defaultOverrides |-> defaultOverrides],
          objProvider |-> [op EXCEPT ![wallet] = provider]]

Construct ==
    \E wallet \in Identities, provider \in Providers, defaultOverrides \in OverrideInputs :
        LET r == Constructor(wallet, provider, defaultOverrides, objProvider) IN
        /\ Cardinality(deployers \cup (IF r.threw = NoError THEN {r.this} ELSE {})) <= MaxDeployers
        /\ objProvider' = r.objProvider
        /\ deployers' = IF r.threw = NoError THEN deployers \cup {r.this} ELSE deployers
        /\ lastConstruct' = [wallet |-> wallet, threw |-> r.threw]
        /\ UNCHANGED <<calls, clientLog>>

\* ------------------------------------------------------ the deploy calls
\* pc: "idle" (not invoked), "send" / "wait" / "receipt" (suspended at the await
\* of lines 44 / 46 / 48), "resolved", "rejected" (the promise deploy returned).
NoCall ==
    [pc |-> "idle", this |-> NoDeployer, contract |-> NoContract, args |-> << >>,
     steps |-> << >>, built |-> NoTx, sent |-> NoTx, sentVia |-> NoProvider,
     transaction |-> 0, waitedOn |-> NoProvider, waitedHash |-> 0,
     receiptFrom |-> NoProvider, receiptHash |-> 0, receipt |-> NoReceipt,
     result |-> 0, error |-> NoErr]

CallIds == 1..MaxCalls

\* The method `name` of the pipeline has been entered.
Step(call, name) == [call EXCEPT !.steps = Append(@, name)]

\* Faulty variant of Reject: the error is swallowed and the call carries on as it was.
RejectSwallows(call, name, hash) == call

\* An exception inside the async function deploy: nothing after the throwing
\* statement runs and the promise is rejected with the error.
Reject(call, name, hash) ==
    [call EXCEPT !.pc = "rejected", !.error = [name |-> name, transactionHash |-> hash]]

\* `return deploymentResult` (line 54).
Resolve(call, value) == [call EXCEPT !.pc = "resolved", !.result = value]

\* The address the chain gives the contract created by transaction `hash`.
AddressOf(hash) == 100 + hash

\* ------------------------------------------------------ pipeline methods
\* _preValidateArguments: reads contract.contractName; only logs.
_preValidateArguments(contract, deploymentArguments) ==
    [threw |-> NoError]

\* _prepareDeployTransaction: ethers.Contract.getDeployTransaction encodes the
\* constructor arguments after the bytecode, and throws when their number is
\* not the one the ABI declares.  The result carries no gasPrice / gasLimit.
_prepareDeployTransaction(contract, deploymentArguments) ==
    IF Len(deploymentArguments) # contract.ctorInputs
    THEN [threw |-> "EncodingError", tx |-> NoTx]
    ELSE [threw |-> NoError,
          tx |-> [data |-> <<contract.bytecode, deploymentArguments>>,
                  gasPrice |-> Undefined, gasLimit |-> Undefined]]

\* Faulty variant: the `=== undefined` early return is missing.
OverrideWithoutUndefinedCheck(defaultOverrides, deployTransaction) ==
    IF defaultOverrides.kind # "object"
    THEN [threw |-> "TypeError", tx |-> deployTransaction]
    ELSE [threw |-> NoError,
          tx |-> [deployTransaction EXCEPT
                    !.gasPrice = IF GreaterThanZero(defaultOverrides.gasPrice)
                                 THEN defaultOverrides.gasPrice ELSE @,
                    !.gasLimit = IF GreaterThanZero(defaultOverrides.gasLimit)
                                 THEN defaultOverrides.gasLimit ELSE @]]

\* Faulty variant: `>= 0` in place of `> 0`.
OverrideAppliesZero(defaultOverrides, deployTransaction) ==
    IF defaultOverrides.kind = "undefined"
    THEN [threw |-> NoError, tx |-> deployTransaction]
    ELSE IF defaultOverrides.kind = "null"
    THEN [threw |-> "TypeError", tx |-> deployTransaction]
    ELSE [threw |-> NoError,
          tx |-> [deployTransaction EXCEPT
                    !.gasPrice = IF defaultOverrides.gasPrice # Undefined
                                    /\ defaultOverrides.gasPrice[1] >= 0
                                 THEN defaultOverrides.gasPrice ELSE @,
                    !.gasLimit = IF defaultOverrides.gasLimit # Undefined
                                    /\ defaultOverrides.gasLimit[1] >= 0
                                 THEN defaultOverrides.gasLimit ELSE @]]

\* Faulty variant: the gasLimit check is an `else if` of the gasPrice check.
OverrideElseIf(defaultOverrides, deployTransaction) ==
    IF defaultOverrides.kind = "undefined"
    THEN [threw |-> NoError, tx |-> deployTransaction]
    ELSE IF defaultOverrides.kind = "null"
    THEN [threw |-> "TypeError", tx |-> deployTransaction]
    ELSE [threw |-> NoError,
          tx |-> IF GreaterThanZero(defaultOverrides.gasPrice)
                 THEN [deployTransaction EXCEPT !.gasPrice = defaultOverrides.gasPrice]
                 ELSE IF GreaterThanZero(defaultOverrides.gasLimit)
                 THEN [deployTransaction EXCEPT !.gasLimit = defaultOverrides.gasLimit]
                 ELSE deployTransaction]

\* _overrideDeployTransactionConfig with this.defaultOverrides.  Reading a
\* property of null throws a TypeError.
_overrideDeployTransactionConfig(defaultOverrides, deployTransaction) ==
    IF defaultOverrides.kind = "undefined"
    THEN [threw |-> NoError, tx |-> deployTransaction]
    ELSE IF defaultOverrides.kind = "null"
    THEN [threw |-> "TypeError", tx |-> deployTransaction]
    ELSE [threw |-> NoError,
          tx |-> [deployTransaction EXCEPT
                    !.gasPrice = IF GreaterThanZero(defaultOverrides.gasPrice)
                                 THEN defaultOverrides.gasPrice ELSE @,
                    !.gasLimit = IF GreaterThanZero(defaultOverrides.gasLimit)
                                 THEN defaultOverrides.gasLimit ELSE @]]

\* Faulty variant: the transaction is handed to wallet.sendTransaction twice.
SendTwice(call, deployTransaction, op) ==
    [Step(Step(call, "send"), "send") EXCEPT
        !.pc = "send", !.sent = deployTransaction, !.sentVia = op[call.this.wallet]]

\* _sendDeployTransaction: this.wallet.sendTransaction(deployTransaction).  The
\* wallet broadcasts through its own `provider` property, read when it is called.
_sendDeployTransaction(call, deployTransaction, op) ==
    [Step(call, "send") EXCEPT
        !.pc = "send", !.sent = deployTransaction, !.sentVia = op[call.this.wallet]]

\* Faulty variant: the wait is skipped and the receipt is asked for at once.
WaitSkipped(call) ==
    [Step(call, "getReceipt") EXCEPT
        !.pc = "receipt", !.receiptFrom = call.this.provider,
        !.receiptHash = call.transaction]

\* _waitForDeployTransaction: this.provider.waitForTransaction(transaction.hash).
_waitForDeployTransaction(call) ==
    [Step(call, "wait") EXCEPT
        !.pc = "wait", !.waitedOn = call.this.provider, !.waitedHash = call.transaction]

\* _getTransactionReceipt: this.provider.getTransactionReceipt(transaction.hash).
_getTransactionReceipt(call) ==
    [Step(call, "getReceipt") EXCEPT
        !.pc = "receipt", !.receiptFrom = call.this.provider,
        !.receiptHash = call.transaction]

\* Faulty variant: the status check is missing.
PostValidateNeverThrows(transactionReceipt) ==
    [threw |-> NoError, transactionHash |-> 0]

\* _postValidateTransaction: throws when transactionReceipt.status === 0; the
\* message names transactionReceipt.transactionHash.
_postValidateTransaction(transactionReceipt) ==
    IF transactionReceipt.status = Num(0)
    THEN [threw |-> "DeploymentReverted", transactionHash |-> transactionReceipt.transactionHash]
    ELSE [threw |-> NoError, transactionHash |-> 0]

\* Faulty variant: the transaction's hash is returned in place of the address.
ResultIsTransactionHash(transactionReceipt) == transactionReceipt.transactionHash

\* _generateDeploymentResult
_generateDeploymentResult(transactionReceipt) == transactionReceipt.contractAddress

\* ------------------------------------------------- the external clients
\* One completed request of a wallet or provider.
LogEntry(c, op, provider, hash, outcome, receipt) ==
    [call |-> c, op |-> op, provider |-> provider, hash |-> hash,
     outcome |-> outcome, receipt |-> receipt]

\* The transactions provider p has accepted.
Accepted(p) ==
    {e.hash : e \in {x \in clientLog :
                        x.op = "sendTransaction" /\ x.outcome = "ok" /\ x.provider = p}}

\* Every broadcast transaction gets a hash of its own.
NextHash ==
    1 + Cardinality({e \in clientLog : e.op = "sendTransaction" /\ e.outcome = "ok"})

StatusInputs == {Num(0), Num(1), Undefined}

\* ---------------------------------------------------------------- deploy
\* deploy(contract, ...deploymentArguments) up to the await of line 44.
DeployStart(c) ==
    \E this \in deployers, contract \in ContractInputs, deploymentArguments \in ArgInputs :
        /\ calls[c].pc = "idle"
        /\ \A b \in CallIds : b < c => calls[b].pc # "idle"
        /\ LET entered == [calls[c] EXCEPT !.this = this, !.contract = contract,
                                           !.args = deploymentArguments]
               s1 == Step(entered, "preValidate")
               pre == _preValidateArguments(contract, deploymentArguments)
               s2 == Step(s1, "prepare")
               prep == _prepareDeployTransaction(contract, deploymentArguments)
               s3 == Step([s2 EXCEPT !.built = prep.tx], "override")
               ov == _overrideDeployTransactionConfig(this.defaultOverrides, prep.tx)
           IN  calls' = [calls EXCEPT ![c] =
                   IF pre.threw # NoError THEN Reject(s1, pre.threw, 0)
                   ELSE IF prep.threw # NoError THEN Reject(s2, prep.threw, 0)
                   ELSE IF ov.threw # NoError THEN Reject(s3, ov.threw, 0)
                   ELSE _sendDeployTransaction(s3, ov.tx, objProvider)]
        /\ UNCHANGED <<objProvider, deployers, lastConstruct, clientLog>>

\* wallet.sendTransaction resolves with the broadcast transaction; deploy goes
\* on to the await of line 46 (line 124).
SendResolves(c) ==
    /\ calls[c].pc = "send"
    /\ LET hash == NextHash IN
        /\ clientLog' = clientLog \cup
               {LogEntry(c, "sendTransaction", calls[c].sentVia, hash, "ok", NoReceipt)}
        /\ calls' = [calls EXCEPT ![c] =
               _waitForDeployTransaction([calls[c] EXCEPT !.transaction = hash])]
    /\ UNCHANGED <<objProvider, deployers, lastConstruct>>

\* wallet.sendTransaction rejects (the broadcast is refused).
SendRejects(c) ==
    /\ calls[c].pc = "send"
    /\ clientLog' = clientLog \cup
           {LogEntry(c, "sendTransaction", calls[c].sentVia, 0, "SubmissionError", NoReceipt)}
    /\ calls' = [calls EXCEPT ![c] = Reject(calls[c], "SubmissionError", 0)]
    /\ UNCHANGED <<objProvider, deployers, lastConstruct>>

\* provider.waitForTransaction resolves: the provider has the transaction in a
\* block; deploy goes on to the await of line 48.
WaitResolves(c) ==
    /\ calls[c].pc = "wait"
    /\ calls[c].waitedHash \in Accepted(calls[c].waitedOn)
    /\ clientLog' = clientLog \cup
           {LogEntry(c, "waitForTransaction", calls[c].waitedOn, calls[c].waitedHash,
                     "ok", NoReceipt)}
    /\ calls' = [calls EXCEPT ![c] = _getTransactionReceipt(calls[c])]
    /\ UNCHANGED <<objProvider, deployers, lastConstruct>>

\* provider.waitForTransaction rejects (the client gives up waiting).
WaitRejects(c) ==
    /\ calls[c].pc = "wait"
    /\ clientLog' = clientLog \cup
           {LogEntry(c, "waitForTransaction", calls[c].waitedOn, calls[c].waitedHash,
                     "TimeoutError", NoReceipt)}
    /\ calls' = [calls EXCEPT ![c] = Reject(calls[c], "TimeoutError", 0)]
    /\ UNCHANGED <<objProvider, deployers, lastConstruct>>

\* provider.getTransactionReceipt resolves; deploy runs lines 50-54.
ReceiptResolves(c) ==
    \E status \in StatusInputs :
        /\ calls[c].pc = "receipt"
        /\ calls[c].receiptHash \in Accepted(calls[c].receiptFrom)
        /\ LET transactionReceipt ==
                   [status |-> status,
                    contractAddress |-> AddressOf(calls[c].receiptHash),
                    transactionHash |-> calls[c].receiptHash]
               got == Step([calls[c] EXCEPT !.receipt = transactionReceipt], "postValidate")
               post == _postValidateTransaction(transactionReceipt)
           IN  /\ clientLog' = clientLog \cup
                      {LogEntry(c, "getTransactionReceipt", calls[c].receiptFrom,
                                calls[c].receiptHash, "ok", transactionReceipt)}
               /\ calls' = [calls EXCEPT ![c] =
                      IF post.threw # NoError
                      THEN Reject(got, post.threw, post.transactionHash)
                      ELSE Resolve(Step(got, "generateResult"),
                                   _generateDeploymentResult(transactionReceipt))]
        /\ UNCHANGED <<objProvider, deployers, lastConstruct>>

\* provider.getTransactionReceipt rejects.
ReceiptRejects(c) ==
    /\ calls[c].pc = "receipt"
    /\ clientLog' = clientLog \cup
           {LogEntry(c, "getTransactionReceipt", calls[c].receiptFrom, calls[c].receiptHash,
                     "ReceiptError", NoReceipt)}
    /\ calls' = [calls EXCEPT ![c] = Reject(calls[c], "ReceiptError", 0)]
    /\ UNCHANGED <<objProvider, deployers, lastConstruct>>

\* --------------------------------------------------------- specification
Init ==
    /\ objProvider = [i \in Identities |-> NoProvider]
    /\ deployers = {}
    /\ lastConstruct = [wallet |-> "none", threw |-> NoError]
    /\ calls = [c \in CallIds |-> NoCall]
    /\ clientLog = {}

Next ==
    \/ Construct
    \/ \E c \in CallIds : DeployStart(c)
    \/ \E c \in CallIds : SendResolves(c)
    \/ \E c \in CallIds : SendRejects(c)
    \/ \E c \in CallIds : WaitResolves(c)
    \/ \E c \in CallIds : WaitRejects(c)
    \/ \E c \in CallIds : ReceiptResolves(c)
    \/ \E c \in CallIds : ReceiptRejects(c)

Spec == Init /\ [][Next]_vars

\* The deploy calls of one Deployer, for every defaultOverrides it can be given:
\* the state after `new Deployer(wallet, provider, defaultOverrides)`.
InitOverrides ==
    \E wallet \in Wallets, provider \in Providers, defaultOverrides \in AllOverrideInputs :
        LET r == Constructor(wallet, provider, defaultOverrides,
                             [i \in Identities |-> NoProvider]) IN
        /\ objProvider = r.objProvider
        /\ deployers = {r.this}
        /\ lastConstruct = [wallet |-> wallet, threw |-> r.threw]
        /\ calls = [c \in CallIds |-> NoCall]
        /\ clientLog = {}

NextDeploy ==
    \/ \E c \in CallIds : DeployStart(c)
    \/ \E c \in CallIds : SendResolves(c)
    \/ \E c \in CallIds : SendRejects(c)
    \/ \E c \in CallIds : WaitResolves(c)
    \/ \E c \in CallIds : WaitRejects(c)
    \/ \E c \in CallIds : ReceiptResolves(c)
    \/ \E c \in CallIds : ReceiptRejects(c)

SpecOverrides == InitOverrides /\ [][NextDeploy]_vars

\* ================================================================ claims
Contains(seq, x) == \E i \in 1..Len(seq) : seq[i] = x
Count(seq, x) == Cardinality({i \in 1..Len(seq) : seq[i] = x})
IsPrefix(seq, of) == Len(seq) <= Len(of) /\ \A i \in 1..Len(seq) : seq[i] = of[i]
LastOf(seq) == seq[Len(seq)]

\* The completed requests of call c to operation op that ended with `outcome`.
Requests(c, op, outcome) ==
    {e \in clientLog : e.call = c /\ e.op = op /\ e.outcome = outcome}

PipelineOrder ==
    <<"preValidate", "prepare", "override", "send", "wait", "getReceipt",
      "postValidate", "generateResult">>

\* JS `v <= 0`
LessOrEqualZero(v) == v # Undefined /\ v[1] <= 0

\* C1: a deploy that resolves returns the contractAddress of the receipt that
\* the Deployer's provider returned for the hash of the transaction this very
\* call submitted.
C1_ResultIsReceiptAddress ==
    \A c \in CallIds :
        calls[c].pc = "resolved" =>
            \E s \in Requests(c, "sendTransaction", "ok") :
                \E r \in Requests(c, "getTransactionReceipt", "ok") :
                    /\ r.hash = s.hash
                    /\ r.provider = calls[c].this.provider
                    /\ calls[c].result = r.receipt.contractAddress

C1_Witness ==
    \E c \in CallIds :
        /\ calls[c].pc = "resolved"
        /\ calls[c].this.defaultOverrides.kind = "object"
        /\ calls[c].result = AddressOf(calls[c].transaction)

\* C2: whenever the receipt fetched by a deploy call has status 0 (failure), the
\* call is rejected with DeploymentReverted carrying the receipt's transaction
\* hash, and it produces no result: _generateDeploymentResult is never entered.
C2_RevertedReceiptRejects ==
    \A c \in CallIds :
        \A r \in Requests(c, "getTransactionReceipt", "ok") :
            r.receipt.status = Num(0) =>
                /\ calls[c].pc = "rejected"
                /\ calls[c].error =
                       [name |-> "DeploymentReverted",
                        transactionHash |-> r.receipt.transactionHash]
                /\ calls[c].result = 0
                /\ ~Contains(calls[c].steps, "generateResult")

C2_Witness ==
    \E c \in CallIds :
        \E r \in Requests(c, "getTransactionReceipt", "ok") :
            /\ r.receipt.status = Num(0)
            /\ r.receipt.transactionHash > 0
            /\ calls[c].pc = "rejected"

\* C3: `new Deployer` with a wallet argument that is not a Wallet throws
\* InvalidIdentity and does nothing else: the step changes no provider property,
\* adds no Deployer, touches no call and makes no request to wallet or provider;
\* no Deployer ever holds such an object and none ever sends through it.
C3_InvalidIdentityThrowsFirst ==
    /\ [](/\ lastConstruct.wallet \in NonWallets => lastConstruct.threw = "InvalidIdentity"
          /\ \A x \in NonWallets : objProvider[x] = NoProvider
          /\ \A d \in deployers : d.wallet \in Wallets
          /\ \A c \in CallIds : calls[c].this.wallet \notin NonWallets)
    /\ [][(lastConstruct' # lastConstruct /\ lastConstruct'.wallet \in NonWallets)
            => /\ lastConstruct'.threw = "InvalidIdentity"
               /\ UNCHANGED <<objProvider, deployers, calls, clientLog>>]_vars

C3_Witness ==
    /\ lastConstruct.wallet \in NonWallets
    /\ lastConstruct.threw = "InvalidIdentity"
    /\ deployers = {}

\* C4: with defaultOverrides undefined, every deploy call that reaches the
\* override step goes on to send, and the transaction it hands to
\* sendTransaction is, field for field, the one the build step produced.
C4_NoOverridesNoChange ==
    \A c \in CallIds :
        (calls[c].this.defaultOverrides = UndefinedOverrides
            /\ Contains(calls[c].steps, "override"))
        => /\ Contains(calls[c].steps, "send")
           /\ calls[c].sent = calls[c].built
           /\ calls[c].error.name # "TypeError"

C4_Witness ==
    \E c \in CallIds :
        /\ calls[c].this.defaultOverrides = UndefinedOverrides
        /\ Contains(calls[c].steps, "send")
        /\ calls[c].sent.data = <<Token.bytecode, <<1000>>>>

\* C5: in every submitted transaction, gasPrice is the built transaction's when
\* defaultOverrides.gasPrice <= 0, and gasLimit is the built transaction's when
\* defaultOverrides.gasLimit <= 0; an override of 0 is never sent as 0.
C5_NonPositiveOverrideIgnored ==
    \A c \in CallIds :
        (Contains(calls[c].steps, "send") /\ calls[c].this.defaultOverrides.kind = "object")
        => LET o == calls[c].this.defaultOverrides IN
           /\ LessOrEqualZero(o.gasPrice) => calls[c].sent.gasPrice = calls[c].built.gasPrice
           /\ LessOrEqualZero(o.gasLimit) => calls[c].sent.gasLimit = calls[c].built.gasLimit
           /\ o.gasPrice = Num(0) => calls[c].sent.gasPrice # Num(0)
           /\ o.gasLimit = Num(0) => calls[c].sent.gasLimit # Num(0)

C5_Witness ==
    \E c \in CallIds :
        /\ Contains(calls[c].steps, "send")
        /\ calls[c].this.defaultOverrides = OverridesObject(Num(0), Num(-1))

\* C6: with a defaultOverrides object, the submitted transaction's gasPrice is
\* defaultOverrides.gasPrice exactly when that is > 0 and the built one
\* otherwise, its gasLimit is defaultOverrides.gasLimit exactly when that is > 0
\* and the built one otherwise, each whatever the other field is, and its data
\* is the built transaction's.
C6_OverridesPerField ==
    \A c \in CallIds :
        (Contains(calls[c].steps, "override") /\ calls[c].this.defaultOverrides.kind = "object")
        => LET o == calls[c].this.defaultOverrides IN
           /\ Contains(calls[c].steps, "send")
           /\ calls[c].sent.gasPrice =
                  IF GreaterThanZero(o.gasPrice) THEN o.gasPrice ELSE calls[c].built.gasPrice
           /\ calls[c].sent.gasLimit =
                  IF GreaterThanZero(o.gasLimit) THEN o.gasLimit ELSE calls[c].built.gasLimit
           /\ calls[c].sent.data = calls[c].built.data

C6_Witness ==
    \E c \in CallIds :
        /\ calls[c].this.defaultOverrides = OverridesObject(Num(5), Num(7))
        /\ calls[c].sent.gasPrice = Num(5)
        /\ calls[c].sent.gasLimit = Num(7)
        /\ calls[c].built.gasPrice = Undefined

\* C7 as stated: every deploy execution that has ended called sendTransaction
\* exactly once and getTransactionReceipt exactly once.
C7_Original ==
    \A c \in CallIds :
        calls[c].pc \in {"resolved", "rejected"} =>
            /\ Count(calls[c].steps, "send") = 1
            /\ Count(calls[c].steps, "getReceipt") = 1

\* C7 amended: a deploy execution calls sendTransaction at most once and
\* getTransactionReceipt at most once, at most one transaction of it is ever
\* broadcast, and every execution that gets as far as validating a receipt (so
\* every one that resolves) has called each exactly once.
C7_AtMostOnceAndOnceWhenValidated ==
    \A c \in CallIds :
        /\ Count(calls[c].steps, "send") <= 1
        /\ Count(calls[c].steps, "getReceipt") <= 1
        /\ Cardinality(Requests(c, "sendTransaction", "ok")) <= 1
        /\ Cardinality(Requests(c, "getTransactionReceipt", "ok")) <= 1
        /\ (calls[c].pc = "resolved" \/ Contains(calls[c].steps, "postValidate"))
            => /\ Count(calls[c].steps, "send") = 1
               /\ Count(calls[c].steps, "getReceipt") = 1
               /\ Cardinality(Requests(c, "sendTransaction", "ok")) = 1
               /\ Cardinality(Requests(c, "getTransactionReceipt", "ok")) = 1

C7_Witness ==
    \E c \in CallIds :
        /\ calls[c].pc = "resolved"
        /\ Count(calls[c].steps, "send") = 1
        /\ Count(calls[c].steps, "getReceipt") = 1

\* The pipeline method during which each client request is outstanding.
StepOfRequest(op) ==
    CASE op = "sendTransaction" -> "send"
      [] op = "waitForTransaction" -> "wait"
      [] op = "getTransactionReceipt" -> "getReceipt"

\* C8: an error raised at a step of deploy (encoding, submission, wait, receipt
\* fetch, receipt validation) rejects that call with that error, the failing
\* step is the last one the call ever runs, no step runs twice, and the call
\* has no result; once rejected, the call and its requests never change.
C8_ErrorsEndTheCall ==
    /\ [](\A c \in CallIds :
            /\ \A e \in {x \in clientLog : x.call = c /\ x.outcome # "ok"} :
                 /\ calls[c].pc = "rejected"
                 /\ calls[c].error.name = e.outcome
                 /\ LastOf(calls[c].steps) = StepOfRequest(e.op)
            /\ (Contains(calls[c].steps, "prepare")
                    /\ Len(calls[c].args) # calls[c].contract.ctorInputs)
                 => /\ calls[c].pc = "rejected"
                    /\ calls[c].error.name = "EncodingError"
                    /\ LastOf(calls[c].steps) = "prepare"
            /\ calls[c].receipt.status = Num(0)
                 => /\ calls[c].pc = "rejected"
                    /\ calls[c].error.name = "DeploymentReverted"
                    /\ LastOf(calls[c].steps) = "postValidate"
            /\ calls[c].pc = "rejected"
                 => /\ calls[c].error.name # NoError
                    /\ calls[c].result = 0
                    /\ ~Contains(calls[c].steps, "generateResult")
            /\ \A i, j \in 1..Len(calls[c].steps) :
                 calls[c].steps[i] = calls[c].steps[j] => i = j)
    /\ [][\A c \in CallIds :
            calls[c].pc = "rejected"
                => /\ calls'[c] = calls[c]
                   /\ {e \in clientLog' : e.call = c} = {e \in clientLog : e.call = c}]_vars

C8_Witness ==
    \E c \in CallIds :
        /\ calls[c].pc = "rejected"
        /\ calls[c].error.name = "TimeoutError"
        /\ LastOf(calls[c].steps) = "wait"
        /\ Requests(c, "waitForTransaction", "TimeoutError") # {}

\* C9: the steps of a deploy call run in the pipeline's order, each after the
\* previous one completed: the wait starts after sendTransaction resolved and
\* waits for the hash it resolved with, the receipt is requested after that wait
\* resolved and for the same hash, and validation follows the receipt.
C9_StepsInOrder ==
    \A c \in CallIds :
        /\ IsPrefix(calls[c].steps, PipelineOrder)
        /\ Contains(calls[c].steps, "wait")
             => \E s \in Requests(c, "sendTransaction", "ok") :
                    /\ s.hash = calls[c].transaction
                    /\ calls[c].waitedHash = s.hash
        /\ Contains(calls[c].steps, "getReceipt")
             => \E s \in Requests(c, "sendTransaction", "ok") :
                    /\ calls[c].receiptHash = s.hash
                    /\ \E w \in Requests(c, "waitForTransaction", "ok") : w.hash = s.hash
        /\ Contains(calls[c].steps, "postValidate")
             => \E r \in Requests(c, "getTransactionReceipt", "ok") :
                    r.hash = calls[c].transaction

C9_Witness ==
    \E c \in CallIds :
        /\ calls[c].steps = PipelineOrder
        /\ calls[c].pc = "resolved"
        /\ calls[c].waitedHash = calls[c].transaction
        /\ calls[c].transaction > 0

\* C10: every request a deploy call causes (the broadcast, the wait, the receipt)
\* goes to the provider its Deployer was constructed with.
C10_SameProviderThroughout ==
    \A e \in clientLog : e.provider = calls[e.call].this.provider

====
